---- MODULE Spec2Model ----
(***************************************************************************)
(* Model of the WebSocket session handler of internal/ws/handler.go:       *)
(* origin-gated upgrade, heartbeat (ping/pong) timing, the read/echo loop  *)
(* with its text-frame dispatch, the JSON command interpreter and the      *)
(* shutdown steps.                                                         *)
(*                                                                         *)
(* Text is modelled as a sequence of bytes.  An ASCII byte is the          *)
(* one-character string of that character; a byte >= 0x80 is written       *)
(* "xHH".  Time is counted in seconds and passes in steps of Quantum; a    *)
(* deadline is kept as the time left until it (deadline - time.Now()).     *)
(***************************************************************************)
EXTENDS Integers, Sequences, FiniteSets, TLC

(***************************************************************************)
(* Bounds of the model.                                                    *)
(***************************************************************************)
\* frames one session reads before the peer stops sending
MaxFrames == 2

\* text frames the other connections of the process handle meanwhile
MaxOtherFrames == 1

(***************************************************************************)
(* Heartbeat and timeout settings (handler.go:19-23), in seconds.          *)
(***************************************************************************)
pongWait == 30

pingPeriod == (pongWait * 9) \div 10

\* the step of the model's clock: pongWait and pingPeriod are multiples of it
Quantum == pongWait - pingPeriod

(***************************************************************************)
(* Generic helpers on byte sequences.                                      *)
(***************************************************************************)
RECURSIVE Pow10(_)
Pow10(n) == IF n <= 0 THEN 1 ELSE 10 * Pow10(n - 1)

Abs(n) == IF n < 0 THEN -n ELSE n

\* strings.HasPrefix
HasPrefix(s, p) == Len(s) >= Len(p) /\ SubSeq(s, 1, Len(p)) = p

\* strings.TrimPrefix
TrimPrefix(s, p) == IF HasPrefix(s, p) THEN SubSeq(s, Len(p) + 1, Len(s)) ELSE s

DigitChars == <<"0", "1", "2", "3", "4", "5", "6", "7", "8", "9">>

IsDigit(c) == \E d \in 1..10 : DigitChars[d] = c

DigitVal(c) == (CHOOSE d \in 1..10 : DigitChars[d] = c) - 1

\* the %d verb of fmt.Sprintf on an unsigned integer
RECURSIVE FormatUint(_)
FormatUint(n) ==
    IF n < 10 THEN <<DigitChars[n + 1]>>
    ELSE FormatUint(n \div 10) \o <<DigitChars[(n % 10) + 1]>>

(***************************************************************************)
(* Unicode: the letters the model's inputs use.  A rune is the sequence of *)
(* the bytes of its UTF-8 encoding.                                        *)
(***************************************************************************)
LowerLetters == <<"a", "b", "c", "d", "e", "f", "g", "h", "i", "j", "k", "l", "m",
                  "n", "o", "p", "q", "r", "s", "t", "u", "v", "w", "x", "y", "z">>

UpperLetters == <<"A", "B", "C", "D", "E", "F", "G", "H", "I", "J", "K", "L", "M",
                  "N", "O", "P", "Q", "R", "S", "T", "U", "V", "W", "X", "Y", "Z">>

\* U+00E9 (e acute), U+00C9 (E acute), U+017F (long s), U+FFFD
RuneEAcute == <<"xC3", "xA9">>

RuneEAcuteUpper == <<"xC3", "x89">>

RuneLongS == <<"xC5", "xBF">>

RuneError == <<"xEF", "xBF", "xBD">>

LeadBytes2 == {"xC3", "xC5"}

ContBytes == {"xA9", "x89", "xBF", "xBD"}

IsASCII(b) == b \notin (LeadBytes2 \cup ContBytes \cup {"xEF"})

\* []rune(s): the runes of a byte string; each byte that starts no valid
\* encoding becomes U+FFFD
RECURSIVE DecodeRunes(_)
DecodeRunes(s) ==
    IF s = <<>> THEN <<>>
    ELSE IF IsASCII(s[1]) THEN <<<<s[1]>>>> \o DecodeRunes(Tail(s))
    ELSE IF s[1] \in LeadBytes2 /\ Len(s) >= 2 /\ s[2] \in ContBytes
         THEN <<SubSeq(s, 1, 2)>> \o DecodeRunes(SubSeq(s, 3, Len(s)))
    ELSE IF Len(s) >= 3 /\ SubSeq(s, 1, 3) = RuneError
         THEN <<RuneError>> \o DecodeRunes(SubSeq(s, 4, Len(s)))
    ELSE <<RuneError>> \o DecodeRunes(Tail(s))

\* string(runes)
RECURSIVE EncodeRunes(_)
EncodeRunes(rs) == IF rs = <<>> THEN <<>> ELSE rs[1] \o EncodeRunes(Tail(rs))

\* unicode.ToUpper
ToUpperRune(r) ==
    IF r = RuneEAcute THEN RuneEAcuteUpper
    ELSE IF r = RuneLongS THEN <<"S">>
    ELSE IF Len(r) = 1 /\ \E k \in 1..Len(LowerLetters) : LowerLetters[k] = r[1]
         THEN <<UpperLetters[CHOOSE k \in 1..Len(LowerLetters) : LowerLetters[k] = r[1]]>>
    ELSE r

\* unicode.ToLower
ToLowerRune(r) ==
    IF r = RuneEAcuteUpper THEN RuneEAcute
    ELSE IF Len(r) = 1 /\ \E k \in 1..Len(UpperLetters) : UpperLetters[k] = r[1]
         THEN <<LowerLetters[CHOOSE k \in 1..Len(UpperLetters) : UpperLetters[k] = r[1]]>>
    ELSE r

\* unicode.SimpleFold: the next rune of r's case-folding orbit
SimpleFold(r) ==
    IF r = <<"s">> THEN RuneLongS
    ELSE IF r = RuneLongS THEN <<"S">>
    ELSE IF ToUpperRune(r) # r THEN ToUpperRune(r)
    ELSE ToLowerRune(r)

\* strings.ToUpper
ToUpper(s) ==
    LET rs == DecodeRunes(s)
    IN  EncodeRunes([k \in 1..Len(rs) |-> ToUpperRune(rs[k])])

\* strings.EqualFold: rune by rune, two runes match when equal or when one
\* is reached from the other by SimpleFold (orbits have at most 3 runes)
EqualFold(s, t) ==
    LET rs == DecodeRunes(s)
        rt == DecodeRunes(t)
    IN  /\ Len(rs) = Len(rt)
        /\ \A k \in 1..Len(rs) :
              \/ rs[k] = rt[k]
              \/ SimpleFold(rs[k]) = rt[k]
              \/ SimpleFold(SimpleFold(rs[k])) = rt[k]

(***************************************************************************)
(* reverseString (handler.go:25-32): swap runes[i], runes[j] while i < j.  *)
(***************************************************************************)
RECURSIVE ReverseLoop(_, _, _)
ReverseLoop(runes, i, j) ==
    IF i < j
    THEN ReverseLoop([runes EXCEPT ![i] = runes[j], ![j] = runes[i]], i + 1, j - 1)
    ELSE runes

\* a reversal of the bytes, not of the runes: the fault that breaks a
\* multi-byte character
reverseString_Bytes(s) == [k \in 1..Len(s) |-> s[Len(s) - k + 1]]

reverseString(s) ==
    LET runes == DecodeRunes(s)
    IN  EncodeRunes(ReverseLoop(runes, 1, Len(runes)))

(***************************************************************************)
(* Origin Guard (handler.go:73-88).                                        *)
(***************************************************************************)
LocalhostOrigin == <<"h", "t", "t", "p", ":", "/", "/", "l", "o", "c", "a", "l",
                     "h", "o", "s", "t", ":", "4", "0", "0", "0">>

allowedOrigins == <<LocalhostOrigin>>

\* a comparison of the allow-list entry with the start of the origin only:
\* the fault that lets http://localhost:4000/ and longer origins in
originAllowed_Prefix(o) ==
    IF o = <<>> THEN FALSE
    ELSE \E k \in 1..Len(allowedOrigins) :
             /\ Len(o) >= Len(allowedOrigins[k])
             /\ EqualFold(SubSeq(o, 1, Len(allowedOrigins[k])), allowedOrigins[k])

originAllowed(o) ==
    IF o = <<>> THEN FALSE
    ELSE \E k \in 1..Len(allowedOrigins) : EqualFold(o, allowedOrigins[k])

(***************************************************************************)
(* float64.  A finite value is m * 10^e, kept normalised (m not divisible  *)
(* by 10, zero is 0 * 10^0); inf is 1 or -1 for +Inf and -Inf.  Sums,      *)
(* differences and products are exact on decimal values of a few digits;   *)
(* a sum whose terms differ by more than 17 decimal digits is the larger   *)
(* term, as it is in 53-bit arithmetic.  Neither denormals nor the sign of *)
(* zero are modelled.                                                      *)
(***************************************************************************)
Float(m, e) == [m |-> m, e |-> e, inf |-> 0]

Inf(sign) == [m |-> 0, e |-> 0, inf |-> sign]

Zero == Float(0, 0)

RECURSIVE Normalize(_, _)
Normalize(m, e) ==
    IF m = 0 THEN Zero
    ELSE IF m % 10 = 0 THEN Normalize(m \div 10, e + 1)
    ELSE Float(m, e)

RECURSIVE NumDigits(_)
NumDigits(n) == IF n < 10 THEN 1 ELSE 1 + NumDigits(n \div 10)

\* the decimal position of the leading digit: 10^(Lead-1) <= |x| < 10^Lead
Lead(x) == NumDigits(Abs(x.m)) + x.e

Sign(x) == IF x.inf # 0 THEN x.inf ELSE IF x.m < 0 THEN -1 ELSE IF x.m > 0 THEN 1 ELSE 0

\* |x| < |y| for finite x, y
MagLess(x, y) ==
    IF y.m = 0 THEN FALSE
    ELSE IF x.m = 0 THEN TRUE
    ELSE IF Lead(x) # Lead(y) THEN Lead(x) < Lead(y)
    ELSE LET lo == IF x.e < y.e THEN x.e ELSE y.e
         IN  Abs(x.m) * Pow10(x.e - lo) < Abs(y.m) * Pow10(y.e - lo)

\* math.MaxFloat64 = 1.7976931348623157e308, cut to 8 digits: no value of
\* at most 8 digits lies between the two
MaxFloat64 == Float(17976931, 301)

\* the float64 a decimal value becomes: +-Inf beyond math.MaxFloat64
RoundFloat64(x) == IF MagLess(MaxFloat64, x) THEN Inf(Sign(x)) ELSE x

\* math.Abs
FAbs(x) == IF x.inf # 0 THEN Inf(1) ELSE Float(Abs(x.m), x.e)

FNeg(x) == IF x.inf # 0 THEN Inf(-x.inf) ELSE Float(-x.m, x.e)

\* x < y for finite values
FLess(x, y) ==
    IF Sign(x) # Sign(y) THEN Sign(x) < Sign(y)
    ELSE IF Sign(x) >= 0 THEN MagLess(x, y)
    ELSE MagLess(y, x)

\* x + y on finite values
FAdd(x, y) ==
    IF x.m = 0 THEN y
    ELSE IF y.m = 0 THEN x
    ELSE IF Lead(x) - Lead(y) > 17 THEN x
    ELSE IF Lead(y) - Lead(x) > 17 THEN y
    ELSE LET lo == IF x.e < y.e THEN x.e ELSE y.e
         IN  RoundFloat64(Normalize(x.m * Pow10(x.e - lo) + y.m * Pow10(y.e - lo), lo))

\* x - y on finite values
FSub(x, y) == FAdd(x, FNeg(y))

\* x * y on finite values
FMul(x, y) == RoundFloat64(Normalize(x.m * y.m, x.e + y.e))

\* x / y on finite values, y # 0; a quotient of more than 6 further decimal
\* digits is cut there (float64 rounds it at 53 bits)
FDiv(x, y) ==
    LET a == Abs(x.m)
        b == Abs(y.m)
        exact == {k \in 0..6 : (a * Pow10(k)) % b = 0}
        k == IF exact = {} THEN 6 ELSE CHOOSE j \in exact : \A i \in exact : j <= i
        q == (a * Pow10(k)) \div b
    IN  RoundFloat64(Normalize(Sign(x) * Sign(y) * q, x.e - y.e - k))

(***************************************************************************)
(* encoding/json: the grammar of RFC 8259 on byte sequences.  A value is   *)
(* [t, num, str, mem]: t is its kind, mem the members of an object (or the *)
(* elements of an array, with empty keys).  Of the string escapes only     *)
(* \", \\ and \/ are modelled.                                             *)
(***************************************************************************)
JValue(t, num, str, mem) == [t |-> t, num |-> num, str |-> str, mem |-> mem]

JNull == JValue("null", Zero, <<>>, <<>>)

ParseFail == [ok |-> FALSE, next |-> 0, v |-> JNull]

ParseOK(next, v) == [ok |-> TRUE, next |-> next, v |-> v]

WhiteSpace == {" ", "\t", "\n", "\r"}

At(b, i) == IF i >= 1 /\ i <= Len(b) THEN b[i] ELSE ""

RECURSIVE SkipWS(_, _)
SkipWS(b, i) == IF At(b, i) \in WhiteSpace THEN SkipWS(b, i + 1) ELSE i

RECURSIVE ScanDigits(_, _, _, _)
ScanDigits(b, i, val, n) ==
    IF IsDigit(At(b, i))
    THEN ScanDigits(b, i + 1, val * 10 + DigitVal(b[i]), n + 1)
    ELSE [next |-> i, val |-> val, n |-> n]

ParseNumber(b, i) ==
    LET NoDigits(at) == [next |-> at, val |-> 0, n |-> 0]
        Finish(neg, ip, fp, ep, eneg) ==
            IF ep.n = 0 /\ At(b, fp.next) \in {"e", "E"} THEN ParseFail
            ELSE ParseOK(ep.next,
                         JValue("num",
                                Normalize((IF neg THEN -1 ELSE 1)
                                              * (ip.val * Pow10(fp.n) + fp.val),
                                          (IF eneg THEN -ep.val ELSE ep.val) - fp.n),
                                <<>>, <<>>))
        Exponent(neg, ip, fp) ==
            IF At(b, fp.next) \in {"e", "E"}
            THEN IF At(b, fp.next + 1) \in {"+", "-"}
                 THEN Finish(neg, ip, fp, ScanDigits(b, fp.next + 2, 0, 0),
                             b[fp.next + 1] = "-")
                 ELSE Finish(neg, ip, fp, ScanDigits(b, fp.next + 1, 0, 0), FALSE)
            ELSE Finish(neg, ip, fp, NoDigits(fp.next), FALSE)
        FractionDigits(neg, ip, fp) ==
            IF fp.n = 0 THEN ParseFail ELSE Exponent(neg, ip, fp)
        Fraction(neg, ip) ==
            IF ip.n = 0 \/ (ip.n > 1 /\ b[ip.next - ip.n] = "0") THEN ParseFail
            ELSE IF At(b, ip.next) = "."
            THEN FractionDigits(neg, ip, ScanDigits(b, ip.next + 1, 0, 0))
            ELSE Exponent(neg, ip, NoDigits(ip.next))
    IN  IF At(b, i) = "-" THEN Fraction(TRUE, ScanDigits(b, i + 1, 0, 0))
        ELSE Fraction(FALSE, ScanDigits(b, i, 0, 0))

RECURSIVE ScanString(_, _, _)
ScanString(b, i, acc) ==
    IF i > Len(b) THEN ParseFail
    ELSE IF b[i] = "\"" THEN ParseOK(i + 1, JValue("str", Zero, acc, <<>>))
    ELSE IF b[i] = "\\"
         THEN IF At(b, i + 1) \in {"\"", "\\", "/"}
              THEN ScanString(b, i + 2, Append(acc, b[i + 1]))
              ELSE ParseFail
    ELSE IF b[i] \in {"\t", "\n", "\r"} THEN ParseFail
    ELSE ScanString(b, i + 1, Append(acc, b[i]))

ParseString(b, i) == IF At(b, i) = "\"" THEN ScanString(b, i + 1, <<>>) ELSE ParseFail

ParseLiteral(b, i, word, v) ==
    IF i + Len(word) - 1 <= Len(b) /\ SubSeq(b, i, i + Len(word) - 1) = word
    THEN ParseOK(i + Len(word), v)
    ELSE ParseFail

RECURSIVE ParseValue(_, _), ParseMembers(_, _, _), ParseElements(_, _, _)
ParseValue(b, i) ==
    LET Container(open, close, j) ==
            IF At(b, j) = close
            THEN ParseOK(j + 1, JValue(IF open = "{" THEN "obj" ELSE "arr", Zero, <<>>, <<>>))
            ELSE IF open = "{" THEN ParseMembers(b, j, <<>>)
            ELSE ParseElements(b, j, <<>>)
        Value(c) ==
            IF c = "{" THEN Container("{", "}", SkipWS(b, i + 1))
            ELSE IF c = "[" THEN Container("[", "]", SkipWS(b, i + 1))
            ELSE IF c = "\"" THEN ParseString(b, i)
            ELSE IF c = "-" \/ IsDigit(c) THEN ParseNumber(b, i)
            ELSE IF c = "t"
            THEN ParseLiteral(b, i, <<"t", "r", "u", "e">>, JValue("bool", Zero, <<>>, <<>>))
            ELSE IF c = "f"
            THEN ParseLiteral(b, i, <<"f", "a", "l", "s", "e">>, JValue("bool", Zero, <<>>, <<>>))
            ELSE IF c = "n"
            THEN ParseLiteral(b, i, <<"n", "u", "l", "l">>, JNull)
            ELSE ParseFail
    IN  Value(At(b, i))

\* the members of an object from its first key at i
ParseMembers(b, i, acc) ==
    LET More(mem, d) ==
            IF At(b, d) = "," THEN ParseMembers(b, SkipWS(b, d + 1), mem)
            ELSE IF At(b, d) = "}" THEN ParseOK(d + 1, JValue("obj", Zero, <<>>, mem))
            ELSE ParseFail
        Member(ks, vs) ==
            IF ~vs.ok THEN ParseFail
            ELSE More(Append(acc, [k |-> ks.v.str, v |-> vs.v]), SkipWS(b, vs.next))
        Colon(ks, c) ==
            IF At(b, c) # ":" THEN ParseFail
            ELSE Member(ks, ParseValue(b, SkipWS(b, c + 1)))
        Key(ks) == IF ~ks.ok THEN ParseFail ELSE Colon(ks, SkipWS(b, ks.next))
    IN  Key(ParseString(b, i))

\* the elements of an array from its first element at i
ParseElements(b, i, acc) ==
    LET More(mem, d) ==
            IF At(b, d) = "," THEN ParseElements(b, SkipWS(b, d + 1), mem)
            ELSE IF At(b, d) = "]" THEN ParseOK(d + 1, JValue("arr", Zero, <<>>, mem))
            ELSE ParseFail
        Element(vs) ==
            IF ~vs.ok THEN ParseFail
            ELSE More(Append(acc, [k |-> <<>>, v |-> vs.v]), SkipWS(b, vs.next))
    IN  Element(ParseValue(b, i))

\* one JSON value and nothing else but white space (json.Valid)
ParseJSON(b) ==
    LET Whole(r) == IF r.ok /\ SkipWS(b, r.next) = Len(b) + 1 THEN r ELSE ParseFail
    IN  Whole(ParseValue(b, SkipWS(b, 1)))

\* a number decoded into a float64 is an error when it is out of range
RECURSIVE NumbersInRange(_)
NumbersInRange(v) ==
    IF v.t = "num" THEN ~MagLess(MaxFloat64, v.num)
    ELSE \A k \in 1..Len(v.mem) : NumbersInRange(v.mem[k].v)

\* err of json.Unmarshal(payload, &testJSON), testJSON a map[string]interface{}
UnmarshalMapErr(payload) ==
    LET Err(r) == ~r.ok \/ r.v.t \notin {"obj", "null"} \/ ~NumbersInRange(r.v)
    IN  Err(ParseJSON(payload))

(***************************************************************************)
(* Command Interpreter (handler.go:34-71).  CommandRequest and             *)
(* CommandResponse are declared in a file of the package that is not among *)
(* the sources; their fields and JSON keys are those section 6 of the      *)
(* specification gives: {command, a, b} and {result, command, error}.      *)
(***************************************************************************)
CommandRequest(command, a, b) == [Command |-> command, A |-> a, B |-> b]

CommandResponse(result, command, error) ==
    [Result |-> result, Command |-> command, Error |-> error]

KeyCommand == <<"c", "o", "m", "m", "a", "n", "d">>

KeyA == <<"a">>

KeyB == <<"b">>

CmdAdd == <<"a", "d", "d">>

CmdSubtract == <<"s", "u", "b", "t", "r", "a", "c", "t">>

CmdMultiply == <<"m", "u", "l", "t", "i", "p", "l", "y">>

CmdDivide == <<"d", "i", "v", "i", "d", "e">>

\* the epsilon of the division guard (handler.go:55): 1e-9
Epsilon == Float(1, -9)

\* json.Unmarshal's object decoding into a CommandRequest: a key matches a
\* field case-insensitively, null leaves the field alone, a value of another
\* JSON type than the field's is an error, other keys are skipped
RECURSIVE DecodeMembers(_, _, _)
DecodeMembers(mem, k, st) ==
    IF k > Len(mem) THEN st
    ELSE LET key == mem[k].k
             v == mem[k].v
             bad == [st EXCEPT !.err = TRUE]
             st1 == IF v.t = "null" THEN st
                    ELSE IF EqualFold(key, KeyCommand)
                    THEN IF v.t = "str" THEN [st EXCEPT !.req.Command = v.str] ELSE bad
                    ELSE IF EqualFold(key, KeyA)
                    THEN IF v.t = "num" /\ NumbersInRange(v)
                         THEN [st EXCEPT !.req.A = v.num] ELSE bad
                    ELSE IF EqualFold(key, KeyB)
                    THEN IF v.t = "num" /\ NumbersInRange(v)
                         THEN [st EXCEPT !.req.B = v.num] ELSE bad
                    ELSE st
         IN  DecodeMembers(mem, k + 1, st1)

\* json.Unmarshal(payload, &req), req a CommandRequest
UnmarshalRequest(payload) ==
    LET zero == [req |-> CommandRequest(<<>>, Zero, Zero), err |-> FALSE]
        Decode(r) ==
            IF ~r.ok THEN [zero EXCEPT !.err = TRUE]
            ELSE IF r.v.t = "null" THEN zero
            ELSE IF r.v.t # "obj" THEN [zero EXCEPT !.err = TRUE]
            ELSE DecodeMembers(r.v.mem, 1, zero)
    IN  Decode(ParseJSON(payload))

\* json.Marshal of a CommandResponse: an error for a result that is not finite
\* (json: unsupported value), the encoded response otherwise
Marshal(resp) == [data |-> resp, err |-> resp.Result.inf # 0]

\* processCommand with the cases of add and subtract exchanged
processCommand_SwappedOps(payload) ==
    LET Switch(req) ==
            IF req.Command = CmdAdd
            THEN CommandResponse(FSub(req.A, req.B), req.Command, "")
            ELSE IF req.Command = CmdSubtract
            THEN CommandResponse(FAdd(req.A, req.B), req.Command, "")
            ELSE IF req.Command = CmdMultiply
            THEN CommandResponse(FMul(req.A, req.B), req.Command, "")
            ELSE IF req.Command = CmdDivide
            THEN IF FLess(FAbs(req.B), Epsilon)
                 THEN CommandResponse(Zero, req.Command, "Division by zero")
                 ELSE CommandResponse(FDiv(req.A, req.B), req.Command, "")
            ELSE CommandResponse(Zero, req.Command, "Unknown command")
        Decoded(d) ==
            IF d.err THEN Marshal(CommandResponse(Zero, <<>>, "Invalid JSON"))
            ELSE Marshal(Switch(d.req))
    IN  Decoded(UnmarshalRequest(payload))

\* processCommand (handler.go:35-71)
processCommand(payload) ==
    LET Switch(req) ==
            IF req.Command = CmdAdd
            THEN CommandResponse(FAdd(req.A, req.B), req.Command, "")
            ELSE IF req.Command = CmdSubtract
            THEN CommandResponse(FSub(req.A, req.B), req.Command, "")
            ELSE IF req.Command = CmdMultiply
            THEN CommandResponse(FMul(req.A, req.B), req.Command, "")
            ELSE IF req.Command = CmdDivide
            THEN IF FLess(FAbs(req.B), Epsilon)
                 THEN CommandResponse(Zero, req.Command, "Division by zero")
                 ELSE CommandResponse(FDiv(req.A, req.B), req.Command, "")
            ELSE CommandResponse(Zero, req.Command, "Unknown command")
        Decoded(d) ==
            IF d.err THEN Marshal(CommandResponse(Zero, <<>>, "Invalid JSON"))
            ELSE Marshal(Switch(d.req))
    IN  Decoded(UnmarshalRequest(payload))

(***************************************************************************)
(* Frame Dispatcher: the reply to one text frame (handler.go:189-223).     *)
(* A reply is [kind, text, resp]: kind "text" with its bytes, or kind      *)
(* "json" with the response json.Marshal encoded.                          *)
(***************************************************************************)
TextReply(text) == [kind |-> "text", text |-> text, resp |-> CommandResponse(Zero, <<>>, "")]

JSONReply(resp) == [kind |-> "json", text |-> <<>>, resp |-> resp]

NoReply == [kind |-> "none", text |-> <<>>, resp |-> CommandResponse(Zero, <<>>, "")]

PrefixUpper == <<"U", "P", "P", "E", "R", ":">>

PrefixReverse == <<"R", "E", "V", "E", "R", "S", "E", ":">>

ErrorProcessingText == <<"E", "r", "r", "o", "r", " ", "p", "r", "o", "c", "e", "s", "s", "i", "n", "g", " ", "c", "o", "m", "m", "a", "n", "d">>

\* fmt.Sprintf("[Msg #%d] %s", count, text)
MsgSprintf(count, text) ==
    <<"[", "M", "s", "g", " ", "#">> \o FormatUint(count) \o <<"]", " ">> \o text

\* the dispatch that answers a payload failing the validity test of
\* handler.go:193-194 with the "Invalid JSON" response
responsePayload_InvalidOnMapErr(payload, count) ==
    LET Command(r) ==
            IF r.err THEN TextReply(MsgSprintf(count, ErrorProcessingText))
            ELSE JSONReply(r.data)
    IN  IF Len(payload) > 0 /\ payload[1] = "{"
        THEN IF ~UnmarshalMapErr(payload)
             THEN Command(processCommand(payload))
             ELSE JSONReply(CommandResponse(Zero, <<>>, "Invalid JSON"))
        ELSE IF HasPrefix(payload, PrefixUpper)
        THEN TextReply(MsgSprintf(count, ToUpper(TrimPrefix(payload, PrefixUpper))))
        ELSE IF HasPrefix(payload, PrefixReverse)
        THEN TextReply(MsgSprintf(count, reverseString(TrimPrefix(payload, PrefixReverse))))
        ELSE TextReply(MsgSprintf(count, payload))

\* the dispatch without the validity test of handler.go:193-194: every
\* payload that begins with '{' goes to processCommand
responsePayload_NoValidityTest(payload, count) ==
    LET Command(r) ==
            IF r.err THEN TextReply(MsgSprintf(count, ErrorProcessingText))
            ELSE JSONReply(r.data)
    IN  IF Len(payload) > 0 /\ payload[1] = "{"
        THEN Command(processCommand(payload))
        ELSE IF HasPrefix(payload, PrefixUpper)
        THEN TextReply(MsgSprintf(count, ToUpper(TrimPrefix(payload, PrefixUpper))))
        ELSE IF HasPrefix(payload, PrefixReverse)
        THEN TextReply(MsgSprintf(count, reverseString(TrimPrefix(payload, PrefixReverse))))
        ELSE TextReply(MsgSprintf(count, payload))

\* handler.go:189-223
responsePayload(payload, count) ==
    LET Command(r) ==
            IF r.err THEN TextReply(MsgSprintf(count, ErrorProcessingText))
            ELSE JSONReply(r.data)
    IN  IF Len(payload) > 0 /\ payload[1] = "{"
        THEN IF ~UnmarshalMapErr(payload)
             THEN Command(processCommand(payload))
             ELSE TextReply(MsgSprintf(count, payload))
        ELSE IF HasPrefix(payload, PrefixUpper)
        THEN TextReply(MsgSprintf(count, ToUpper(TrimPrefix(payload, PrefixUpper))))
        ELSE IF HasPrefix(payload, PrefixReverse)
        THEN TextReply(MsgSprintf(count, reverseString(TrimPrefix(payload, PrefixReverse))))
        ELSE TextReply(MsgSprintf(count, payload))

(***************************************************************************)
(* Inputs: the requests and the frames the peers send.                     *)
(***************************************************************************)
Sessions == {"c1", "c2"}

MethodGet_Post == "POST"

\* http.MethodGet (handler.go:108)
MethodGet == "GET"

Methods == {"GET", "POST"}

OriginInputs ==
    { <<>>,
      LocalhostOrigin,
      ToUpper(LocalhostOrigin),
      SubSeq(LocalhostOrigin, 1, 14) \o RuneLongS \o SubSeq(LocalhostOrigin, 16, 21),
      LocalhostOrigin \o <<"/">>,
      SubSeq(LocalhostOrigin, 1, 20),
      <<"h", "t", "t", "p", "s">> \o SubSeq(LocalhostOrigin, 5, 21),
      <<"h", "t", "t", "p", ":", "/", "/", "e", "v", "i", "l", ".", "c", "o", "m">> }

\* {"command":"add","a":2,"b":3}
PayloadAdd ==
    <<"{", "\"", "c", "o", "m", "m", "a", "n", "d", "\"", ":", "\"", "a", "d", "d",
      "\"", ",", "\"", "a", "\"", ":", "2", ",", "\"", "b", "\"", ":", "3", "}">>

\* {"command":"divide","a":1e308,"b":1e-9}
PayloadOverflow ==
    <<"{", "\"", "c", "o", "m", "m", "a", "n", "d", "\"", ":", "\"", "d", "i", "v",
      "i", "d", "e", "\"", ",", "\"", "a", "\"", ":", "1", "e", "3", "0", "8", ",",
      "\"", "b", "\"", ":", "1", "e", "-", "9", "}">>

\* {"command":"divide","a":1,"b":0}
PayloadDivideByZero ==
    <<"{", "\"", "c", "o", "m", "m", "a", "n", "d", "\"", ":", "\"", "d", "i", "v",
      "i", "d", "e", "\"", ",", "\"", "a", "\"", ":", "1", ",", "\"", "b", "\"", ":",
      "0", "}">>

\* {"command":"pow","a":2,"b":3}
PayloadUnknown ==
    <<"{", "\"", "c", "o", "m", "m", "a", "n", "d", "\"", ":", "\"", "p", "o", "w",
      "\"", ",", "\"", "a", "\"", ":", "2", ",", "\"", "b", "\"", ":", "3", "}">>

\* {"command":"add","a":"x"}
PayloadBadType ==
    <<"{", "\"", "c", "o", "m", "m", "a", "n", "d", "\"", ":", "\"", "a", "d", "d",
      "\"", ",", "\"", "a", "\"", ":", "\"", "x", "\"", "}">>

\* {"command":"add"
PayloadTruncated ==
    <<"{", "\"", "c", "o", "m", "m", "a", "n", "d", "\"", ":", "\"", "a", "d", "d",
      "\"">>

\* {"a":1e400}
PayloadOutOfRange ==
    <<"{", "\"", "a", "\"", ":", "1", "e", "4", "0", "0", "}">>

\*  {"command":"add"}
PayloadSpaceJSON ==
    <<" ", "{", "\"", "c", "o", "m", "m", "a", "n", "d", "\"", ":", "\"", "a", "d",
      "d", "\"", "}">>

\* UPPER:héllo
PayloadUpper ==
    <<"U", "P", "P", "E", "R", ":", "h", "xC3", "xA9", "l", "l", "o">>

\* REVERSE:héllo
PayloadReverse ==
    <<"R", "E", "V", "E", "R", "S", "E", ":", "h", "xC3", "xA9", "l", "l", "o">>

\* hello
PayloadPlain ==
    <<"h", "e", "l", "l", "o">>

\* 
PayloadEmpty ==
    <<>>

TextPayloads ==
    { PayloadAdd,
      PayloadOverflow,
      PayloadDivideByZero,
      PayloadUnknown,
      PayloadBadType,
      PayloadTruncated,
      PayloadOutOfRange,
      PayloadSpaceJSON,
      PayloadUpper,
      PayloadReverse,
      PayloadPlain,
      PayloadEmpty }

(***************************************************************************)
(* State.  Every variable but messageCounter is a function of the session. *)
(***************************************************************************)
VARIABLES
    req,             \* the HTTP request HandleWebSocket is called with
    status,          \* the HTTP status written to the client (0: none yet)
    upgradeCalled,   \* upgrader.Upgrade was called
    originChecked,   \* upgrader.CheckOrigin was called
    hpc,             \* where HandleWebSocket is
    ppc,             \* where the ping goroutine is
    conn,            \* the connection: "none", "open", "closed" (released)
    readDeadline,    \* time left to the read deadline of conn (-1: none set)
    done,            \* the done channel: "nil", "open", "closed"
    nextTick,        \* time left to the ticker's next tick (0: no ticker runs)
    tickC,           \* a tick waits in ticker.C
    payload,         \* the text frame being processed
    count,           \* the last value atomic.AddUint64 returned to the session
    reply,           \* responsePayload of the frame being processed
    messageCounter,  \* the process-wide sequence counter
    framesRead,      \* frames ReadMessage returned
    textFrames,      \* the text frames among them
    increments,      \* atomic.AddUint64 calls made by the session
    prevCount,       \* count of the session's text frame before the last one
    writeCalls,      \* conn.WriteMessage calls
    closeFrames,     \* close frames attempted
    exitReason,      \* why the receive loop ended: "", "timeout", "read", "write"
    doneCloses,      \* close(done) calls
    connCloses,      \* conn.Close calls
    probe,           \* what TimedSpec observes of the session's pings: "none"
                     \* written yet, "due" (the last one awaits its pong),
                     \* "answered", or "late" (the clock advanced while a pong
                     \* was due)
    cmdIn,           \* a command request given to processCommand on its own
    cmdPayload,      \* its JSON encoding
    cmdOut           \* what processCommand returned for it

reqVars == <<req, status, upgradeCalled, originChecked>>

connVars == <<conn, readDeadline, done, nextTick, tickC>>

loopVars == <<payload, count, reply, messageCounter>>

histVars == <<framesRead, textFrames, increments, prevCount, writeCalls,
              closeFrames, exitReason, doneCloses, connCloses>>

cmdVars == <<cmdIn, cmdPayload, cmdOut>>

vars == <<reqVars, hpc, ppc, connVars, loopVars, histVars, probe, cmdVars>>

NoRequest == [method |-> "", origin |-> <<>>, handshake |-> FALSE]

InitSessions ==
    /\ req = [s \in Sessions |-> NoRequest]
    /\ status = [s \in Sessions |-> 0]
    /\ upgradeCalled = [s \in Sessions |-> FALSE]
    /\ originChecked = [s \in Sessions |-> FALSE]
    /\ hpc = [s \in Sessions |-> "idle"]
    /\ ppc = [s \in Sessions |-> "none"]
    /\ conn = [s \in Sessions |-> "none"]
    /\ readDeadline = [s \in Sessions |-> -1]
    /\ done = [s \in Sessions |-> "nil"]
    /\ nextTick = [s \in Sessions |-> 0]
    /\ tickC = [s \in Sessions |-> FALSE]
    /\ payload = [s \in Sessions |-> <<>>]
    /\ count = [s \in Sessions |-> 0]
    /\ reply = [s \in Sessions |-> NoReply]
    /\ messageCounter = 0
    /\ framesRead = [s \in Sessions |-> 0]
    /\ textFrames = [s \in Sessions |-> 0]
    /\ increments = [s \in Sessions |-> 0]
    /\ prevCount = [s \in Sessions |-> 0]
    /\ writeCalls = [s \in Sessions |-> 0]
    /\ closeFrames = [s \in Sessions |-> 0]
    /\ exitReason = [s \in Sessions |-> ""]
    /\ doneCloses = [s \in Sessions |-> 0]
    /\ connCloses = [s \in Sessions |-> 0]
    /\ probe = [s \in Sessions |-> "none"]

NoCommand == [has |-> FALSE, command |-> <<>>, a |-> Zero, b |-> Zero]

NoResult == [data |-> CommandResponse(Zero, <<>>, ""), err |-> FALSE, returned |-> FALSE]

Init ==
    /\ InitSessions
    /\ cmdIn = NoCommand
    /\ cmdPayload = <<>>
    /\ cmdOut = NoResult

(***************************************************************************)
(* Upgrade Adapter (handler.go:90-157).                                    *)
(***************************************************************************)
\* a client sends a request to the upgrade endpoint; handshake tells whether
\* its WebSocket handshake headers are well formed
Arrive(s, method, origin, handshake) ==
    /\ hpc[s] = "idle"
    /\ req' = [req EXCEPT ![s] = [method |-> method, origin |-> origin,
                                  handshake |-> handshake]]
    /\ hpc' = [hpc EXCEPT ![s] = "called"]
    /\ UNCHANGED <<status, upgradeCalled, originChecked, ppc, connVars, loopVars, histVars>>
    /\ UNCHANGED <<cmdVars, probe>>

\* upgrader.Upgrade (handler.go:91-103, 114): the handshake headers are
\* checked, then CheckOrigin; every failure goes through the Error callback,
\* which answers 403 whatever the status the library asked for
Upgrade(r) ==
    [checked |-> r.handshake,
     status |-> IF r.handshake /\ originAllowed(r.origin) THEN 101 ELSE 403]

\* HandleWebSocket up to the read loop (handler.go:106-157)
HandleWebSocket(s) ==
    /\ hpc[s] = "called"
    /\ req' = [req EXCEPT ![s] = NoRequest]
    /\ IF req[s].method # MethodGet
       THEN /\ status' = [status EXCEPT ![s] = 405]
            /\ hpc' = [hpc EXCEPT ![s] = "returned"]
            /\ UNCHANGED <<upgradeCalled, originChecked, ppc, connVars>>
       ELSE LET u == Upgrade(req[s])
            IN  /\ upgradeCalled' = [upgradeCalled EXCEPT ![s] = TRUE]
                /\ originChecked' = [originChecked EXCEPT ![s] = u.checked]
                /\ status' = [status EXCEPT ![s] = u.status]
                /\ IF u.status # 101
                   THEN /\ hpc' = [hpc EXCEPT ![s] = "returned"]
                        /\ UNCHANGED <<ppc, connVars>>
                   ELSE /\ conn' = [conn EXCEPT ![s] = "open"]
                        /\ readDeadline' = [readDeadline EXCEPT ![s] = pongWait]
                        /\ done' = [done EXCEPT ![s] = "open"]
                        /\ nextTick' = [nextTick EXCEPT ![s] = pingPeriod]
                        /\ tickC' = [tickC EXCEPT ![s] = FALSE]
                        /\ ppc' = [ppc EXCEPT ![s] = "select"]
                        /\ hpc' = [hpc EXCEPT ![s] = "read"]
    /\ UNCHANGED <<loopVars, histVars>>
    /\ UNCHANGED <<cmdVars, probe>>

(***************************************************************************)
(* Time passes, one quantum at a time.  Every read deadline comes nearer,  *)
(* and a running ticker whose period ends puts a tick in its channel (of   *)
(* capacity 1) and starts its next period.                                 *)
(***************************************************************************)
TickStep ==
    /\ \E s \in Sessions : nextTick[s] > 0 \/ readDeadline[s] > 0
    /\ readDeadline' = [s \in Sessions |->
                           IF readDeadline[s] > Quantum THEN readDeadline[s] - Quantum
                           ELSE IF readDeadline[s] >= 0 THEN 0
                           ELSE readDeadline[s]]
    /\ nextTick' = [s \in Sessions |->
                       IF nextTick[s] > Quantum THEN nextTick[s] - Quantum
                       ELSE IF nextTick[s] > 0 THEN pingPeriod
                       ELSE 0]
    /\ tickC' = [s \in Sessions |-> tickC[s] \/ (nextTick[s] > 0 /\ nextTick[s] <= Quantum)]
    /\ UNCHANGED <<reqVars, hpc, ppc, conn, done, loopVars, histVars>>
    /\ UNCHANGED cmdVars

Tick == TickStep /\ UNCHANGED probe

(***************************************************************************)
(* The ping goroutine (handler.go:141-157).                                *)
(***************************************************************************)
\* case <-ticker.C
PingTick(s) ==
    /\ ppc[s] = "select"
    /\ tickC[s]
    /\ tickC' = [tickC EXCEPT ![s] = FALSE]
    /\ ppc' = [ppc EXCEPT ![s] = "deadline"]
    /\ UNCHANGED <<reqVars, hpc, conn, readDeadline, done, nextTick, loopVars, histVars>>
    /\ UNCHANGED <<cmdVars, probe>>

\* conn.SetWriteDeadline (handler.go:147)
PingSetWriteDeadline(s) ==
    /\ ppc[s] = "deadline"
    /\ ppc' = [ppc EXCEPT ![s] = "write"]
    /\ UNCHANGED <<reqVars, hpc, connVars, loopVars, histVars>>
    /\ UNCHANGED <<cmdVars, probe>>

\* the ping write whose failure does not end the goroutine
PingWrite_IgnoreError(s, ok) ==
    /\ ppc[s] = "write"
    /\ ok => conn[s] = "open"
    /\ ppc' = [ppc EXCEPT ![s] = "select"]
    /\ UNCHANGED <<reqVars, hpc, connVars, loopVars, histVars>>
    /\ UNCHANGED <<cmdVars, probe>>

\* the ping write whose failure is logged without the return
PingWriteStep_NoReturn(s, ok) ==
    /\ ppc[s] = "write"
    /\ ok => conn[s] = "open"
    /\ ppc' = [ppc EXCEPT ![s] = "select"]
    /\ UNCHANGED <<reqVars, hpc, connVars, loopVars, histVars>>
    /\ UNCHANGED cmdVars

\* conn.WriteControl(PingMessage) (handler.go:148-152): it fails on a closed
\* connection and may fail on an open one; a failure ends the goroutine,
\* whose deferred ticker.Stop then runs
PingWriteStep(s, ok) ==
    /\ ppc[s] = "write"
    /\ ok => conn[s] = "open"
    /\ IF ok
       THEN /\ ppc' = [ppc EXCEPT ![s] = "select"]
            /\ UNCHANGED <<nextTick>>
       ELSE /\ ppc' = [ppc EXCEPT ![s] = "exited"]
            /\ nextTick' = [nextTick EXCEPT ![s] = 0]
    /\ UNCHANGED <<reqVars, hpc, conn, readDeadline, done, tickC, loopVars, histVars>>
    /\ UNCHANGED cmdVars

PingWrite(s, ok) == PingWriteStep(s, ok) /\ UNCHANGED probe

\* case <-done (handler.go:153-154), then the deferred ticker.Stop
PingDone(s) ==
    /\ ppc[s] = "select"
    /\ done[s] = "closed"
    /\ ppc' = [ppc EXCEPT ![s] = "exited"]
    /\ nextTick' = [nextTick EXCEPT ![s] = 0]
    /\ UNCHANGED <<reqVars, hpc, conn, readDeadline, done, tickC, loopVars, histVars>>
    /\ UNCHANGED <<cmdVars, probe>>

(***************************************************************************)
(* The read/echo loop (handler.go:159-230).  conn.ReadMessage returns a    *)
(* frame only before the read deadline; a pong is handled inside it.       *)
(***************************************************************************)
\* the read whose frames are all dispatched, whatever their type
RecvFrame_AnyType(s, msgType, p) ==
    /\ hpc[s] = "read"
    /\ readDeadline[s] > 0
    /\ framesRead[s] < MaxFrames
    /\ framesRead' = [framesRead EXCEPT ![s] = @ + 1]
    /\ hpc' = [hpc EXCEPT ![s] = "deadline"]
    /\ payload' = [payload EXCEPT ![s] = p]
    /\ textFrames' = [textFrames EXCEPT ![s] = IF msgType = "text" THEN @ + 1 ELSE @]
    /\ UNCHANGED <<reqVars, ppc, connVars, count, reply, messageCounter, increments,
                   prevCount, writeCalls, closeFrames, exitReason, doneCloses, connCloses>>
    /\ UNCHANGED <<cmdVars, probe>>

\* ReadMessage returns a frame (handler.go:161, 184)
RecvFrame(s, msgType, p) ==
    /\ hpc[s] = "read"
    /\ readDeadline[s] > 0
    /\ framesRead[s] < MaxFrames
    /\ framesRead' = [framesRead EXCEPT ![s] = @ + 1]
    /\ IF msgType = "text"
       THEN /\ hpc' = [hpc EXCEPT ![s] = "deadline"]
            /\ payload' = [payload EXCEPT ![s] = p]
            /\ textFrames' = [textFrames EXCEPT ![s] = @ + 1]
       ELSE UNCHANGED <<hpc, payload, textFrames>>
    /\ UNCHANGED <<reqVars, ppc, connVars, count, reply, messageCounter, increments,
                   prevCount, writeCalls, closeFrames, exitReason, doneCloses, connCloses>>
    /\ UNCHANGED <<cmdVars, probe>>

\* the pong handler that leaves the read deadline as it is
RecvPongStep_NoRenew(s) ==
    /\ hpc[s] = "read"
    /\ readDeadline[s] > 0
    /\ UNCHANGED <<reqVars, hpc, ppc, connVars, loopVars, histVars>>
    /\ UNCHANGED cmdVars

\* a pong arrives while ReadMessage blocks: the pong handler (handler.go:132-136)
RecvPongStep(s) ==
    /\ hpc[s] = "read"
    /\ readDeadline[s] > 0
    /\ readDeadline' = [readDeadline EXCEPT ![s] = pongWait]
    /\ UNCHANGED <<reqVars, hpc, ppc, conn, done, nextTick, tickC, loopVars, histVars>>
    /\ UNCHANGED cmdVars

RecvPong(s) == RecvPongStep(s) /\ UNCHANGED probe

\* the timed-out read that breaks out of the loop at once, with no close frame
ReadTimeout_NoCloseFrame(s) ==
    /\ hpc[s] = "read"
    /\ readDeadline[s] = 0
    /\ hpc' = [hpc EXCEPT ![s] = "stop"]
    /\ exitReason' = [exitReason EXCEPT ![s] = "timeout"]
    /\ UNCHANGED <<reqVars, ppc, connVars, loopVars, framesRead, textFrames, increments,
                   prevCount, writeCalls, closeFrames, doneCloses, connCloses>>
    /\ UNCHANGED <<cmdVars, probe>>

\* ReadMessage fails because the read deadline has passed (handler.go:162-167)
ReadTimeout(s) ==
    /\ hpc[s] = "read"
    /\ readDeadline[s] = 0
    /\ hpc' = [hpc EXCEPT ![s] = "closeDeadline"]
    /\ exitReason' = [exitReason EXCEPT ![s] = "timeout"]
    /\ UNCHANGED <<reqVars, ppc, connVars, loopVars, framesRead, textFrames, increments,
                   prevCount, writeCalls, closeFrames, doneCloses, connCloses>>
    /\ UNCHANGED <<cmdVars, probe>>

\* the failed read that breaks out of the loop at once, with no close frame
ReadError_NoCloseFrame(s) ==
    /\ hpc[s] = "read"
    /\ hpc' = [hpc EXCEPT ![s] = "stop"]
    /\ exitReason' = [exitReason EXCEPT ![s] = "read"]
    /\ UNCHANGED <<reqVars, ppc, connVars, loopVars, framesRead, textFrames, increments,
                   prevCount, writeCalls, closeFrames, doneCloses, connCloses>>
    /\ UNCHANGED <<cmdVars, probe>>

\* ReadMessage fails for another reason: the peer closed, a protocol error
ReadError(s) ==
    /\ hpc[s] = "read"
    /\ hpc' = [hpc EXCEPT ![s] = "closeDeadline"]
    /\ exitReason' = [exitReason EXCEPT ![s] = "read"]
    /\ UNCHANGED <<reqVars, ppc, connVars, loopVars, framesRead, textFrames, increments,
                   prevCount, writeCalls, closeFrames, doneCloses, connCloses>>
    /\ UNCHANGED <<cmdVars, probe>>

\* conn.SetWriteDeadline before the close frame (handler.go:170)
CloseSetWriteDeadline(s) ==
    /\ hpc[s] = "closeDeadline"
    /\ hpc' = [hpc EXCEPT ![s] = "closeWrite"]
    /\ UNCHANGED <<reqVars, ppc, connVars, loopVars, histVars>>
    /\ UNCHANGED <<cmdVars, probe>>

\* conn.WriteControl(CloseMessage, CloseNormalClosure), its result dropped,
\* then break (handler.go:171-177)
CloseWrite(s) ==
    /\ hpc[s] = "closeWrite"
    /\ closeFrames' = [closeFrames EXCEPT ![s] = @ + 1]
    /\ hpc' = [hpc EXCEPT ![s] = "stop"]
    /\ UNCHANGED <<reqVars, ppc, connVars, loopVars, framesRead, textFrames, increments,
                   prevCount, writeCalls, exitReason, doneCloses, connCloses>>
    /\ UNCHANGED <<cmdVars, probe>>

\* conn.SetWriteDeadline for the reply (handler.go:185)
TextSetWriteDeadline(s) ==
    /\ hpc[s] = "deadline"
    /\ hpc' = [hpc EXCEPT ![s] = "count"]
    /\ UNCHANGED <<reqVars, ppc, connVars, loopVars, histVars>>
    /\ UNCHANGED <<cmdVars, probe>>

\* atomic.AddUint64(addr, delta) without its addition
AtomicAddUint64_Dropped(addr, delta) == addr

\* atomic.AddUint64(&messageCounter, 1) (handler.go:187): the new value.  The
\* counter has 64 bits; no run of the model comes near 2^64
AtomicAddUint64(addr, delta) == addr + delta

\* the count made with a plain load and a later store in place of the atomic
\* addition: the value loaded may be one that another session has since
\* replaced
TextCount_LostUpdate(s) ==
    /\ hpc[s] = "count"
    /\ \E loaded \in {messageCounter - 1, messageCounter} \cap Nat :
          messageCounter' = loaded + 1
    /\ count' = [count EXCEPT ![s] = messageCounter']
    /\ prevCount' = [prevCount EXCEPT ![s] = count[s]]
    /\ increments' = [increments EXCEPT ![s] = @ + 1]
    /\ reply' = [reply EXCEPT ![s] = responsePayload(payload[s], messageCounter')]
    /\ hpc' = [hpc EXCEPT ![s] = "write"]
    /\ UNCHANGED <<reqVars, ppc, connVars, payload, framesRead, textFrames, writeCalls,
                   closeFrames, exitReason, doneCloses, connCloses>>
    /\ UNCHANGED <<cmdVars, probe>>

\* count := atomic.AddUint64(&messageCounter, 1) and the reply built from
\* count (handler.go:187-223)
TextCount(s) ==
    /\ hpc[s] = "count"
    /\ messageCounter' = AtomicAddUint64(messageCounter, 1)
    /\ count' = [count EXCEPT ![s] = messageCounter']
    /\ prevCount' = [prevCount EXCEPT ![s] = count[s]]
    /\ increments' = [increments EXCEPT ![s] = @ + 1]
    /\ reply' = [reply EXCEPT ![s] = responsePayload(payload[s], messageCounter')]
    /\ hpc' = [hpc EXCEPT ![s] = "write"]
    /\ UNCHANGED <<reqVars, ppc, connVars, payload, framesRead, textFrames, writeCalls,
                   closeFrames, exitReason, doneCloses, connCloses>>
    /\ UNCHANGED <<cmdVars, probe>>

\* the reply write whose failure returns from the handler instead of
\* breaking out of the loop
TextWrite_ReturnOnError(s, ok) ==
    /\ hpc[s] = "write"
    /\ writeCalls' = [writeCalls EXCEPT ![s] = @ + 1]
    /\ payload' = [payload EXCEPT ![s] = <<>>]
    /\ reply' = [reply EXCEPT ![s] = NoReply]
    /\ IF ok
       THEN /\ hpc' = [hpc EXCEPT ![s] = "read"]
            /\ UNCHANGED exitReason
       ELSE /\ hpc' = [hpc EXCEPT ![s] = "return"]
            /\ exitReason' = [exitReason EXCEPT ![s] = "write"]
    /\ UNCHANGED <<reqVars, ppc, connVars, count, messageCounter, framesRead, textFrames,
                   increments, prevCount, closeFrames, doneCloses, connCloses>>
    /\ UNCHANGED <<cmdVars, probe>>

\* the reply write that is tried again after a failure
TextWrite_Retry(s, ok) ==
    /\ hpc[s] = "write"
    /\ writeCalls' = [writeCalls EXCEPT ![s] = @ + 1]
    /\ IF ok
       THEN /\ hpc' = [hpc EXCEPT ![s] = "read"]
            /\ payload' = [payload EXCEPT ![s] = <<>>]
            /\ reply' = [reply EXCEPT ![s] = NoReply]
       ELSE UNCHANGED <<hpc, payload, reply>>
    /\ UNCHANGED <<reqVars, ppc, connVars, count, messageCounter, framesRead, textFrames,
                   increments, prevCount, closeFrames, exitReason, doneCloses, connCloses>>
    /\ UNCHANGED <<cmdVars, probe>>

\* conn.WriteMessage(TextMessage, responsePayload) (handler.go:225-229): on
\* success the loop reads again, on failure it breaks
TextWrite(s, ok) ==
    /\ hpc[s] = "write"
    /\ writeCalls' = [writeCalls EXCEPT ![s] = @ + 1]
    /\ payload' = [payload EXCEPT ![s] = <<>>]
    /\ reply' = [reply EXCEPT ![s] = NoReply]
    /\ IF ok
       THEN /\ hpc' = [hpc EXCEPT ![s] = "read"]
            /\ UNCHANGED exitReason
       ELSE /\ hpc' = [hpc EXCEPT ![s] = "stop"]
            /\ exitReason' = [exitReason EXCEPT ![s] = "write"]
    /\ UNCHANGED <<reqVars, ppc, connVars, count, messageCounter, framesRead, textFrames,
                   increments, prevCount, closeFrames, doneCloses, connCloses>>
    /\ UNCHANGED <<cmdVars, probe>>

\* the handler of another connection of the process counts a text frame of
\* its own (handler.go:187): messageCounter is shared by all connections
OtherSession ==
    /\ messageCounter - increments["c1"] < MaxOtherFrames
    /\ messageCounter' = AtomicAddUint64(messageCounter, 1)
    /\ UNCHANGED <<reqVars, hpc, ppc, connVars, payload, count, reply, histVars>>
    /\ UNCHANGED <<cmdVars, probe>>

(***************************************************************************)
(* Shutdown (handler.go:119, 232-236).                                     *)
(***************************************************************************)
\* close(done) (handler.go:233)
StopPing(s) ==
    /\ hpc[s] = "stop"
    /\ done' = [done EXCEPT ![s] = "closed"]
    /\ doneCloses' = [doneCloses EXCEPT ![s] = @ + 1]
    /\ hpc' = [hpc EXCEPT ![s] = "return"]
    /\ UNCHANGED <<reqVars, ppc, conn, readDeadline, nextTick, tickC, loopVars,
                   framesRead, textFrames, increments, prevCount, writeCalls,
                   closeFrames, exitReason, connCloses>>
    /\ UNCHANGED <<cmdVars, probe>>

\* the return of a handler that has no deferred conn.Close
Return_NoClose(s) ==
    /\ hpc[s] = "return"
    /\ hpc' = [hpc EXCEPT ![s] = "returned"]
    /\ UNCHANGED <<reqVars, ppc, connVars, loopVars, histVars>>
    /\ UNCHANGED <<cmdVars, probe>>

\* the function returns and the deferred conn.Close runs (handler.go:119, 235-236)
Return(s) ==
    /\ hpc[s] = "return"
    /\ conn' = [conn EXCEPT ![s] = "closed"]
    /\ readDeadline' = [readDeadline EXCEPT ![s] = -1]
    /\ connCloses' = [connCloses EXCEPT ![s] = @ + 1]
    /\ hpc' = [hpc EXCEPT ![s] = "returned"]
    /\ UNCHANGED <<reqVars, ppc, done, nextTick, tickC, loopVars, framesRead,
                   textFrames, increments, prevCount, writeCalls, closeFrames,
                   exitReason, doneCloses>>
    /\ UNCHANGED <<cmdVars, probe>>

(***************************************************************************)
(* Spec: one session, with time, beside the other connections' frames.     *)
(***************************************************************************)
Handler(s) ==
    \/ HandleWebSocket(s)
    \/ ReadTimeout(s)
    \/ CloseSetWriteDeadline(s)
    \/ CloseWrite(s)
    \/ TextSetWriteDeadline(s)
    \/ TextCount(s)
    \/ \E ok \in BOOLEAN : TextWrite(s, ok)
    \/ StopPing(s)
    \/ Return(s)

Pinger(s) ==
    \/ PingTick(s)
    \/ PingSetWriteDeadline(s)
    \/ \E ok \in BOOLEAN : PingWrite(s, ok)
    \/ PingDone(s)

Peer(s) ==
    \/ \E m \in Methods, o \in OriginInputs, h \in BOOLEAN : Arrive(s, m, o, h)
    \/ \E p \in TextPayloads : RecvFrame(s, "text", p)
    \/ RecvFrame(s, "binary", <<>>)
    \/ RecvPong(s)
    \/ ReadError(s)

Next ==
    \/ Tick
    \/ Handler("c1")
    \/ Pinger("c1")
    \/ Peer("c1")
    \/ OtherSession

Spec == Init /\ [][Next]_vars

(***************************************************************************)
(* FairSpec: the session under the scheduling the Go runtime gives.  Time  *)
(* passes, and a goroutine that can take a step takes one: the handler's   *)
(* goroutine (a read whose deadline has passed returns) and the ping       *)
(* goroutine.  What the peer does is not constrained.  Which step the loop *)
(* takes next never depends on the bytes of a frame, so the peer's text    *)
(* frames are here the ones the dispatcher echoes as they are.             *)
(***************************************************************************)
LivePayloads == { PayloadPlain, PayloadEmpty }

LivePeer(s) ==
    \/ \E m \in Methods, o \in OriginInputs, h \in BOOLEAN : Arrive(s, m, o, h)
    \/ \E p \in LivePayloads : RecvFrame(s, "text", p)
    \/ RecvFrame(s, "binary", <<>>)
    \/ RecvPong(s)
    \/ ReadError(s)

LiveNext ==
    \/ Tick
    \/ Handler("c1")
    \/ Pinger("c1")
    \/ LivePeer("c1")

Fairness ==
    /\ WF_vars(Tick)
    /\ WF_vars(Handler("c1"))
    /\ WF_vars(Pinger("c1"))

FairSpec == Init /\ [][LiveNext]_vars /\ Fairness

(***************************************************************************)
(* TimedSpec: the heartbeat of one session against the clock.  The peer    *)
(* sends no data frames, and a goroutine that can take a step takes it     *)
(* before the clock advances: the scheduling delay and the duration of a   *)
(* write are far below the 3 s between the ping period and the idle        *)
(* timeout.  probe follows the session's pings: a pong that has not come   *)
(* when the clock advances by pongWait - pingPeriod is late.               *)
(***************************************************************************)
PingerReady(s) ==
    \/ ppc[s] \in {"deadline", "write"}
    \/ ppc[s] = "select" /\ (tickC[s] \/ done[s] = "closed")

HandlerReady(s) ==
    \/ hpc[s] \in {"called", "closeDeadline", "closeWrite", "stop", "return"}
    \/ hpc[s] = "read" /\ readDeadline[s] = 0

TimedTick ==
    /\ \A s \in Sessions : ~PingerReady(s) /\ ~HandlerReady(s)
    /\ TickStep
    /\ probe' = [s \in Sessions |-> IF probe[s] = "due" THEN "late" ELSE probe[s]]

TimedPingWrite(s, ok) ==
    /\ PingWriteStep(s, ok)
    /\ probe' = [probe EXCEPT ![s] = IF ok /\ @ # "late" THEN "due" ELSE @]

TimedRecvPong(s) ==
    /\ RecvPongStep(s)
    /\ probe' = [probe EXCEPT ![s] = IF @ = "due" THEN "answered" ELSE @]

TimedHandler(s) ==
    \/ HandleWebSocket(s)
    \/ ReadTimeout(s)
    \/ CloseSetWriteDeadline(s)
    \/ CloseWrite(s)
    \/ StopPing(s)
    \/ Return(s)

TimedPinger(s) ==
    \/ PingTick(s)
    \/ PingSetWriteDeadline(s)
    \/ \E ok \in BOOLEAN : TimedPingWrite(s, ok)
    \/ PingDone(s)

TimedPeer(s) ==
    \/ \E m \in Methods, o \in OriginInputs, h \in BOOLEAN : Arrive(s, m, o, h)
    \/ TimedRecvPong(s)
    \/ ReadError(s)

TimedNext ==
    \/ TimedTick
    \/ TimedHandler("c1")
    \/ TimedPinger("c1")
    \/ TimedPeer("c1")

TimedSpec == Init /\ [][TimedNext]_vars

(***************************************************************************)
(* SpecCounter: the sessions of Sessions side by side, each with its own   *)
(* handler goroutine, all counting their text frames in messageCounter.    *)
(* The clock and the ping goroutines, which never touch the counter, stand *)
(* still.                                                                  *)
(***************************************************************************)
CounterPayloads == { PayloadAdd, PayloadPlain }

CounterSession(s) ==
    \/ Arrive(s, MethodGet, LocalhostOrigin, TRUE)
    \/ HandleWebSocket(s)
    \/ \E p \in CounterPayloads : RecvFrame(s, "text", p)
    \/ RecvFrame(s, "binary", <<>>)
    \/ TextSetWriteDeadline(s)
    \/ TextCount(s)
    \/ \E ok \in BOOLEAN : TextWrite(s, ok)

CounterNext == \E s \in Sessions : CounterSession(s)

SpecCounter == Init /\ [][CounterNext]_vars

(***************************************************************************)
(* SpecCommand: processCommand on its own, given the JSON encoding of a    *)
(* command request.  The operands are decimal values whose sums, products  *)
(* and quotients the arithmetic above computes exactly.                    *)
(***************************************************************************)
FormatInt(n) == IF n < 0 THEN <<"-">> \o FormatUint(-n) ELSE FormatUint(n)

\* a number as JSON writes it: mantissa, e, exponent
EncodeNumber(x) == FormatInt(x.m) \o <<"e">> \o FormatInt(x.e)

Quote(t) == <<"\"">> \o t \o <<"\"">>

\* {"command":...,"a":...,"b":...}, without the command key when c has none
EncodeRequest(c) ==
    <<"{">>
        \o (IF c.has THEN Quote(KeyCommand) \o <<":">> \o Quote(c.command) \o <<",">>
            ELSE <<>>)
        \o Quote(KeyA) \o <<":">> \o EncodeNumber(c.a) \o <<",">>
        \o Quote(KeyB) \o <<":">> \o EncodeNumber(c.b)
        \o <<"}">>

CommandNames ==
    { CmdAdd, CmdSubtract, CmdMultiply, CmdDivide,
      <<"m", "o", "d">>, <<"A", "D", "D">>, <<>> }

Operands ==
    { Zero, Float(2, 0), Float(-4, 0), Float(5, 0), Float(1, 308), Float(-1, 308) }

\* 5e-10 and -5e-10 are below the epsilon of the division guard, 1e-9 is not
TinyOperands == { Float(5, -10), Float(-5, -10), Float(1, -9) }

CommandInputs ==
    { c \in [has : BOOLEAN, command : CommandNames, a : Operands,
             b : Operands \cup TinyOperands] :
        /\ c.has \/ c.command = <<>>
        /\ ~(/\ c.command \in {CmdAdd, CmdSubtract}
             /\ c.b \in TinyOperands
             /\ c.a \in {Float(2, 0), Float(-4, 0), Float(5, 0)}) }

InitCommand ==
    /\ InitSessions
    /\ cmdIn \in CommandInputs
    /\ cmdPayload = EncodeRequest(cmdIn)
    /\ cmdOut = NoResult

\* jsonResponse, err := processCommand(payload) (handler.go:35-71, 196)
RunCommand ==
    /\ ~cmdOut.returned
    /\ LET Returned(r) == [data |-> r.data, err |-> r.err, returned |-> TRUE]
       IN  cmdOut' = Returned(processCommand(cmdPayload))
    /\ UNCHANGED <<cmdIn, cmdPayload, reqVars, hpc, ppc, connVars, loopVars, histVars, probe>>

NextCommand == RunCommand

SpecCommand == InitCommand /\ [][NextCommand]_vars

(***************************************************************************)
(* Claims.                                                                 *)
(***************************************************************************)
\* the runes of s with their case folded
FoldCase(s) ==
    LET Fold(rs) == [k \in 1..Len(rs) |-> ToLowerRune(ToUpperRune(rs[k]))]
    IN  Fold(DecodeRunes(s))

\* o is not empty and equals an allow-list entry but for the case of letters
AllowListed(o) ==
    /\ o # <<>>
    /\ \E k \in 1..Len(allowedOrigins) : FoldCase(o) = FoldCase(allowedOrigins[k])

\* no connection, no ping goroutine and no done channel
NoSession(s) == conn[s] = "none" /\ ppc[s] = "none" /\ done[s] = "nil"

\* C1: HandleWebSocket, called with a GET request, creates a session (the
\* connection, the ping goroutine, the done channel, the receive loop) only
\* if the origin is not empty and equals an allow-list entry regardless of
\* case; for every other origin it answers 403, and a request answered 403
\* never has a connection, a ping goroutine or a done channel.
C1_OriginGate ==
    /\ [][\A s \in Sessions :
             (hpc[s] = "called" /\ hpc'[s] # "called" /\ req[s].method = "GET") =>
                 /\ (conn'[s] # "none" \/ ppc'[s] # "none" \/ done'[s] # "nil"
                         \/ hpc'[s] = "read")
                        => AllowListed(req[s].origin)
                 /\ ~AllowListed(req[s].origin)
                        => status'[s] = 403 /\ hpc'[s] = "returned"]_vars
    /\ [](\A s \in Sessions : status[s] = 403 => NoSession(s))

C1_Witness ==
    status["c1"] = 403 /\ originChecked["c1"] /\ hpc["c1"] = "returned" /\ NoSession("c1")

\* C2: HandleWebSocket, called with a request whose method is not GET,
\* answers 405 and returns; the upgrader is never called, the origin never
\* checked and no session created, whatever the origin is.
C2_MethodNotAllowed ==
    /\ [][\A s \in Sessions :
             (hpc[s] = "called" /\ hpc'[s] # "called" /\ req[s].method # "GET") =>
                 status'[s] = 405 /\ hpc'[s] = "returned"]_vars
    /\ [](\A s \in Sessions :
             status[s] = 405 => ~upgradeCalled[s] /\ ~originChecked[s] /\ NoSession(s))

C2_Witness ==
    status["c1"] = 405 /\ hpc["c1"] = "returned" /\ ~upgradeCalled["c1"]

\* the read blocks and its deadline has passed with no frame and no pong
Expired(s) == hpc[s] = "read" /\ readDeadline[s] = 0

\* C3: in every session, once the idle window has passed with neither a frame
\* nor a pong (the read blocks with its deadline expired), the read fails and
\* the loop goes to its error branch, a close frame with the normal-closure
\* code is attempted, and the connection is released, the close frame first.
C3_IdleTimeoutCloses ==
    /\ [][\A s \in Sessions :
             (Expired(s) /\ hpc'[s] # hpc[s]) => hpc'[s] = "closeDeadline"]_vars
    /\ [](\A s \in Sessions :
             (exitReason[s] = "timeout" /\ conn[s] = "closed") => closeFrames[s] = 1)
    /\ \A s \in Sessions :
             Expired(s) ~> (conn[s] = "closed" /\ closeFrames[s] = 1)

C3_Witness ==
    exitReason["c1"] = "timeout" /\ conn["c1"] = "closed" /\ closeFrames["c1"] = 1

\* C4: after the receive loop has exited, for whatever reason, the ping
\* goroutine eventually terminates.
C4_PingGoroutineStops ==
    \A s \in Sessions : (exitReason[s] # "") ~> (ppc[s] = "exited")

C4_Witness ==
    exitReason["c1"] = "write" /\ ppc["c1"] = "exited" /\ hpc["c1"] = "returned"

\* C5: the counter is incremented exactly once for every text frame a session
\* receives, whatever the frame's payload: a step of the session that counts
\* adds one to the counter and gives the session the new value, which is
\* greater than the session's value before; no other step of the session
\* changes its value; and the session has counted once for each text frame
\* it received, but for the one it is about to count.
C5_CounterOncePerTextFrame ==
    /\ [][\A s \in Sessions :
             /\ increments'[s] \in {increments[s], increments[s] + 1}
             /\ increments'[s] = increments[s] + 1 =>
                    /\ messageCounter' = messageCounter + 1
                    /\ count'[s] = messageCounter'
                    /\ count'[s] > count[s]
                    /\ prevCount'[s] = count[s]
             /\ increments'[s] = increments[s] => count'[s] = count[s]]_vars
    /\ [](\A s \in Sessions :
             increments[s] =
                 textFrames[s] - (IF hpc[s] \in {"deadline", "count"} THEN 1 ELSE 0))

C5_Witness ==
    increments["c1"] = 2 /\ prevCount["c1"] = 1 /\ count["c1"] = 3

\* C6: the read deadline is set to the idle timeout from now both when a pong
\* arrives and when a frame is received.
C6_DeadlineRenewedOnPongAndFrame ==
    [][\A s \in Sessions :
          (RecvPong(s) \/ framesRead'[s] = framesRead[s] + 1)
              => readDeadline'[s] = pongWait]_vars

BeginsWithBrace(p) == Len(p) > 0 /\ p[1] = "{"

\* p is one JSON value by the grammar
WellFormedJSON(p) == ParseJSON(p).ok

InvalidJSONReply == JSONReply(CommandResponse(Zero, <<>>, "Invalid JSON"))

\* C8: the reply to a text frame whose payload begins with '{' and is not
\* well-formed JSON is "[Msg #N] " followed by the payload as it is; the
\* command response with the error "Invalid JSON" is the reply only to a
\* well-formed payload that does not decode into a command request.
C8_MalformedJSONEchoed ==
    \A s \in Sessions :
        (hpc[s] = "write" /\ BeginsWithBrace(payload[s])) =>
            /\ ~WellFormedJSON(payload[s])
                   => reply[s] = TextReply(MsgSprintf(count[s], payload[s]))
            /\ reply[s] = InvalidJSONReply
                   => WellFormedJSON(payload[s]) /\ UnmarshalRequest(payload[s]).err

C8_Witness ==
    /\ hpc["c1"] = "write"
    /\ payload["c1"] = PayloadTruncated
    /\ reply["c1"] = TextReply(MsgSprintf(count["c1"], PayloadTruncated))

\* C8 as the specification states it: the reply to a text frame whose payload
\* begins with '{' and is not well-formed JSON is the command response with
\* the error "Invalid JSON".
C8_MalformedJSONInvalid ==
    \A s \in Sessions :
        (hpc[s] = "write" /\ BeginsWithBrace(payload[s]) /\ ~WellFormedJSON(payload[s]))
            => reply[s] = InvalidJSONReply

Arithmetic == {CmdAdd, CmdSubtract, CmdMultiply, CmdDivide}

BelowEpsilon(x) == FLess(FAbs(x), Epsilon)

\* the result the claim gives for the command c
ClaimedResult(c) ==
    IF c.command = CmdAdd THEN FAdd(c.a, c.b)
    ELSE IF c.command = CmdSubtract THEN FSub(c.a, c.b)
    ELSE IF c.command = CmdMultiply THEN FMul(c.a, c.b)
    ELSE IF c.command = CmdDivide /\ ~BelowEpsilon(c.b) THEN FDiv(c.a, c.b)
    ELSE Zero

ClaimedError(c) ==
    IF c.command = CmdDivide /\ BelowEpsilon(c.b) THEN "Division by zero"
    ELSE IF c.command \notin Arithmetic THEN "Unknown command"
    ELSE ""

SmallInt(x) == x.inf = 0 /\ x.e >= 0 /\ Lead(x) <= 3

IntOf(x) == x.m * Pow10(x.e)

\* on small integers the results are those of integer arithmetic, and a
\* finite quotient multiplied by the divisor is the dividend
ExactResult(c, result) ==
    /\ (SmallInt(c.a) /\ SmallInt(c.b)) =>
           /\ c.command = CmdAdd => result = Normalize(IntOf(c.a) + IntOf(c.b), 0)
           /\ c.command = CmdSubtract => result = Normalize(IntOf(c.a) - IntOf(c.b), 0)
           /\ c.command = CmdMultiply => result = Normalize(IntOf(c.a) * IntOf(c.b), 0)
    /\ (c.command = CmdDivide /\ ~BelowEpsilon(c.b)) => FMul(result, c.b) = c.a

\* the response the claim gives for the command c
ClaimedResponse(c, r) ==
    /\ r.Command = c.command
    /\ r.Result = ClaimedResult(c)
    /\ r.Error = ClaimedError(c)
    /\ r.Error # "" <=> (\/ c.command = CmdDivide /\ BelowEpsilon(c.b)
                         \/ c.command \notin Arithmetic)
    /\ ExactResult(c, r.Result)

\* C9: for a decoded command request whose result is a finite number,
\* processCommand returns the response that echoes the command name and has
\* the sum, difference, product or quotient with no error, result 0 with
\* "Division by zero" for a divisor below the epsilon, result 0 with
\* "Unknown command" for any other name, a missing one too; when the result
\* is not finite (it overflows), processCommand returns an error and no
\* response.
C9_ProcessCommandResults ==
    cmdOut.returned =>
        IF ClaimedResult(cmdIn).inf # 0 THEN cmdOut.err
        ELSE ~cmdOut.err /\ ClaimedResponse(cmdIn, cmdOut.data)

C9_Witness ==
    /\ cmdOut.returned
    /\ cmdIn.command = CmdDivide
    /\ cmdIn.a = Float(5, 0)
    /\ cmdIn.b = Float(-5, -10)
    /\ cmdOut.data = CommandResponse(Zero, CmdDivide, "Division by zero")

\* C9 as the specification states it: processCommand returns the response
\* for every decoded command request.
C9_AlwaysAResponse ==
    cmdOut.returned => ~cmdOut.err /\ ClaimedResponse(cmdIn, cmdOut.data)

\* the runes of t in the opposite order
CodePointReversed(t) ==
    LET Rev(rs) == EncodeRunes([k \in 1..Len(rs) |-> rs[Len(rs) - k + 1]])
    IN  Rev(DecodeRunes(t))

\* what follows "[Msg #N] " in the reply to a payload that is no command
ClaimedText(p) ==
    IF HasPrefix(p, PrefixUpper)
    THEN ToUpper(SubSeq(p, Len(PrefixUpper) + 1, Len(p)))
    ELSE IF HasPrefix(p, PrefixReverse)
    THEN CodePointReversed(SubSeq(p, Len(PrefixReverse) + 1, Len(p)))
    ELSE p

\* one reply was written for each text frame received, but for the frame
\* whose reply is not written yet
OneReplyPerTextFrame(s) ==
    writeCalls[s] =
        textFrames[s] - (IF hpc[s] \in {"deadline", "count", "write"} THEN 1 ELSE 0)

\* C10: one reply is written for every text frame received, and it has one of
\* four shapes.  For a payload that begins with '{' and that json.Unmarshal
\* decodes, it is processCommand's response as it is, or, when processCommand
\* fails, "[Msg #N] Error processing command".  For every other payload it
\* is "[Msg #N] " followed by the payload as it is when the payload begins
\* with '{', by the uppercased rest for the prefix UPPER:, by the rest
\* reversed by code points for the prefix REVERSE:, by the payload as it is
\* otherwise.  N is the value the frame's own increment produced.
C10_OneReplyOfOneShape ==
    \A s \in Sessions :
        /\ OneReplyPerTextFrame(s)
        /\ hpc[s] = "write" =>
               /\ prevCount[s] < count[s] /\ count[s] <= messageCounter
               /\ IF BeginsWithBrace(payload[s]) /\ ~UnmarshalMapErr(payload[s])
                  THEN IF processCommand(payload[s]).err
                       THEN reply[s] = TextReply(MsgSprintf(count[s], ErrorProcessingText))
                       ELSE reply[s] = JSONReply(processCommand(payload[s]).data)
                  ELSE IF BeginsWithBrace(payload[s])
                  THEN reply[s] = TextReply(MsgSprintf(count[s], payload[s]))
                  ELSE reply[s] = TextReply(MsgSprintf(count[s], ClaimedText(payload[s])))

C10_Witness ==
    /\ hpc["c1"] = "write"
    /\ payload["c1"] = PayloadOverflow
    /\ reply["c1"] = TextReply(MsgSprintf(count["c1"], ErrorProcessingText))

\* C10 as the specification states it: the reply is the command response for
\* a payload that begins with '{' and parses as JSON, and otherwise
\* "[Msg #N] " followed by the uppercased rest, the reversed rest or the
\* payload as it is.
C10_CommandOrPrefixed ==
    \A s \in Sessions :
        /\ OneReplyPerTextFrame(s)
        /\ hpc[s] = "write" =>
               IF BeginsWithBrace(payload[s]) /\ WellFormedJSON(payload[s])
               THEN reply[s].kind = "json"
               ELSE reply[s] = TextReply(MsgSprintf(count[s], ClaimedText(payload[s])))

\* The positions of the handler inside its receive loop (handler.go:160-230).
LoopStates == {"read", "deadline", "count", "write"}

\* The error processCommand reports for a payload, "" when it reports none.
ErrorOf(p) ==
    LET Of(d) ==
            IF d.err THEN "Invalid JSON"
            ELSE IF d.req.Command = CmdDivide /\ BelowEpsilon(d.req.B) THEN "Division by zero"
            ELSE IF d.req.Command \notin Arithmetic THEN "Unknown command"
            ELSE ""
    IN  Of(UnmarshalRequest(p))

\* A payload the dispatcher hands to processCommand.
IsCommand(p) == BeginsWithBrace(p) /\ ~UnmarshalMapErr(p)

\* C11: the receive loop is left only by a failed read or a failed reply
\* write; a command that fails to decode, divides by zero or is unknown gets a
\* reply carrying its error, and after that reply is written the loop reads the
\* next frame; each reply is written once, and after a failed write the loop
\* writes nothing more.
C11_LoopExitsOnReadOrWriteFailure ==
    [][\A s \in Sessions :
          /\ exitReason'[s] # "" => hpc'[s] \notin LoopStates
          /\ (hpc[s] = "count" /\ hpc'[s] = "write"
                 /\ IsCommand(payload'[s]) /\ ErrorOf(payload'[s]) # "")
                 => /\ reply'[s].kind = "json"
                    /\ reply'[s].resp.Error = ErrorOf(payload'[s])
          /\ (hpc[s] \in LoopStates /\ hpc'[s] \notin LoopStates)
                 => \/ hpc[s] = "read" /\ exitReason'[s] \in {"timeout", "read"}
                    \/ hpc[s] = "write" /\ exitReason'[s] = "write"
          /\ (hpc[s] = "write" /\ hpc'[s] # "write" /\ exitReason'[s] = exitReason[s])
                 => hpc'[s] = "read"
          /\ writeCalls'[s] # writeCalls[s]
                 => /\ hpc[s] = "write" /\ hpc'[s] # "write"
                    /\ writeCalls'[s] = writeCalls[s] + 1
                    /\ writeCalls'[s] = textFrames[s]]_vars

\* The reply to a division by zero is about to be written by a loop that
\* has already answered one frame.
C11_Witness ==
    /\ hpc["c1"] = "write"
    /\ payload["c1"] = PayloadDivideByZero
    /\ reply["c1"].resp.Error = "Division by zero"
    /\ writeCalls["c1"] = 1
    /\ exitReason["c1"] = ""

\* The session passed the upgrade.
Upgraded(s) == status[s] = 101

\* C12: in a session that passed the upgrade the done channel is closed once
\* and no more, only after the receive loop has been left, and it has been
\* closed when the handler has returned, whichever failure ended the loop; a
\* session that did not pass the upgrade has no done channel.
C12_DoneClosedOnce ==
    \A s \in Sessions :
        /\ doneCloses[s] <= 1
        /\ done[s] = "closed" <=> doneCloses[s] = 1
        /\ done[s] = "closed" => hpc[s] \in {"return", "returned"}
        /\ (Upgraded(s) /\ hpc[s] \in {"return", "returned"}) => doneCloses[s] = 1
        /\ (Upgraded(s) /\ hpc[s] \in LoopStates \cup {"closeDeadline", "closeWrite", "stop"})
               => done[s] = "open"
        /\ ~Upgraded(s) => done[s] = "nil"

\* The handler has returned after a failed reply write, with done closed once.
C12_Witness ==
    /\ hpc["c1"] = "returned"
    /\ exitReason["c1"] = "write"
    /\ done["c1"] = "closed"
    /\ doneCloses["c1"] = 1

\* The ping goroutine has set its write deadline and its ping write has not
\* returned (handler.go:147-148).
PingWriteStepOpen(s) == ppc[s] = "write"

\* The handler has set a write deadline and the write of the reply or of the
\* close frame has not returned (handler.go:170-175, 185-225).
DispatcherWriteStepOpen(s) == hpc[s] \in {"closeWrite", "count", "write"}

\* C13: on one connection the write step of the ping goroutine and the write
\* step of the dispatcher never overlap: in no reachable state are both between
\* their SetWriteDeadline call and the return of their write.
C13_WriteStepsNeverOverlap ==
    \A s \in Sessions : ~(PingWriteStepOpen(s) /\ DispatcherWriteStepOpen(s))

PingWriteFailed(s) == ppc[s] = "exited" /\ done[s] = "open"

\* C15: after a failed ping write the ping goroutine has ended and writes no
\* further ping, and the receive loop then terminates by itself and the handler
\* runs its shutdown to the end, whatever the peer does afterwards.
C15_ReadLoopEndsAfterPingFailure ==
    \A s \in Sessions :
        /\ [](ppc[s] = "exited" => [](ppc[s] = "exited"))
        /\ PingWriteFailed(s) ~> hpc[s] = "returned"

\* ReadMessage has returned a frame that is not a text frame.
NonTextFrameRead(s) ==
    framesRead'[s] = framesRead[s] + 1 /\ textFrames'[s] = textFrames[s]

\* C16: the read of a non-text frame writes nothing, prepares no reply, leaves
\* messageCounter and the session's N as they are, and leaves the handler at
\* its read; replies and increments never outnumber the text frames.
C16_NonTextFrameIgnored ==
    [][\A s \in Sessions :
          /\ NonTextFrameRead(s)
                 => /\ hpc[s] = "read" /\ hpc'[s] = "read"
                    /\ messageCounter' = messageCounter
                    /\ count'[s] = count[s] /\ increments'[s] = increments[s]
                    /\ writeCalls'[s] = writeCalls[s]
                    /\ reply'[s] = NoReply /\ payload'[s] = <<>>
                    /\ closeFrames'[s] = closeFrames[s] /\ exitReason'[s] = exitReason[s]
          /\ writeCalls'[s] <= textFrames'[s]
          /\ increments'[s] <= textFrames'[s]]_vars

\* A text frame and a binary frame were read: one reply, one increment, and
\* the handler reads on.
C16_Witness ==
    /\ hpc["c1"] = "read"
    /\ framesRead["c1"] = 2
    /\ textFrames["c1"] = 1
    /\ writeCalls["c1"] = 1
    /\ increments["c1"] = 1
    /\ exitReason["c1"] = ""

\* The values of N the session has given to its last two text frames.
Assigned(s) == {count[s], prevCount[s]} \ {0}

\* The text frames the session has processed: those it has read, less the
\* one that waits for its increment.
Processed(s) == textFrames[s] - (IF hpc[s] \in {"deadline", "count"} THEN 1 ELSE 0)

\* C17: with sessions counting text frames side by side no increment is lost:
\* each text frame gets the counter's value plus one, a value above every N
\* given before in any session, so no two frames of the same or of different
\* sessions share an N; and messageCounter equals the number of text frames
\* all sessions have processed so far.
C17_NoLostIncrement ==
    [][/\ \A s \in Sessions :
             count'[s] # count[s]
                => /\ count'[s] = messageCounter + 1
                   /\ \A t \in Sessions : Assigned(t) \subseteq 0..messageCounter
       /\ \A s, t \in Sessions : s # t => (Assigned(s) \cap Assigned(t) = {})'
       /\ \A s \in Sessions : count'[s] # 0 => count'[s] # prevCount'[s]
       /\ \A s \in Sessions : increments'[s] = Processed(s)'
       /\ messageCounter' = increments'["c1"] + increments'["c2"]]_vars

\* Both sessions have counted two text frames each, their increments
\* interleaved: c1 got 1 and 3, c2 got 2 and 4.
C17_Witness ==
    /\ messageCounter = 4
    /\ prevCount["c1"] = 1 /\ count["c1"] = 3
    /\ prevCount["c2"] = 2 /\ count["c2"] = 4

\* The ping goroutine starts a ping: its select takes the tick (handler.go:145).
PingStarts(s) == ppc[s] = "select" /\ ppc'[s] = "deadline"

\* C18 as stated: once done is closed no ping is started, a pending tick or
\* not.
C18_NoPingAfterDone ==
    [][\A s \in Sessions : done[s] = "closed" => ~PingStarts(s)]_vars

\* C18: once done is closed, the select of the ping goroutine either takes the
\* done case and ends the goroutine or, only when a tick is pending, takes
\* that tick and starts a ping; a ping write that returns after the connection
\* was released has failed and ends the goroutine, which never runs again.
C18_PingAfterDoneNeedsTick ==
    [][\A s \in Sessions :
          /\ (done[s] = "closed" /\ ppc[s] = "select" /\ ppc'[s] # "select")
                 => \/ ppc'[s] = "exited"
                    \/ PingStarts(s) /\ tickC[s] /\ ~tickC'[s]
          /\ (conn[s] = "closed" /\ ppc[s] = "write" /\ ppc'[s] # "write")
                 => ppc'[s] = "exited"
          /\ ppc[s] = "exited" => ppc'[s] = "exited"]_vars

\* done is closed and the connection released while the goroutine waits in
\* its select with a tick pending: both cases of the select are ready.
C18_Witness ==
    /\ done["c1"] = "closed"
    /\ conn["c1"] = "closed"
    /\ ppc["c1"] = "select"
    /\ tickC["c1"]

\* The shutdown steps in their order, each at most once: the close-frame
\* attempt, close(done), conn.Close; and conn.Close once in every session that
\* passed the upgrade and has returned, never in one that did not pass it.
ShutdownInOrder(s) ==
    /\ closeFrames'[s] <= 1 /\ doneCloses'[s] <= 1 /\ connCloses'[s] <= 1
    /\ closeFrames'[s] # closeFrames[s] => doneCloses[s] = 0 /\ connCloses[s] = 0
    /\ doneCloses'[s] # doneCloses[s] => hpc[s] = "stop" /\ connCloses[s] = 0
    /\ connCloses'[s] # connCloses[s] => hpc[s] = "return" /\ doneCloses[s] = 1
    /\ (status'[s] = 101 /\ hpc'[s] = "returned")
           => connCloses'[s] = 1 /\ conn'[s] = "closed"
    /\ status'[s] # 101 => connCloses'[s] = 0 /\ conn'[s] = "none"

\* After the release the handler makes no call on the connection.
DispatcherQuietAfterRelease(s) ==
    conn[s] = "closed"
       => /\ hpc[s] = "returned" /\ hpc'[s] = "returned"
          /\ writeCalls'[s] = writeCalls[s] /\ closeFrames'[s] = closeFrames[s]

\* C19 as stated: the shutdown steps happen in order, each at most once, the
\* connection is released once, and after the release neither the handler nor
\* the ping goroutine starts a write step.
C19_NoWriteAfterRelease ==
    [][\A s \in Sessions :
          /\ ShutdownInOrder(s)
          /\ DispatcherQuietAfterRelease(s)
          /\ conn[s] = "closed"
                 => (ppc'[s] \in {"deadline", "write"} => ppc'[s] = ppc[s])]_vars

\* C19: the shutdown steps happen in order, each at most once, the connection
\* is released once on every path after the upgrade, and the handler starts no
\* write after the release; the ping goroutine can start a ping after it, and
\* that ping fails and is the goroutine's last.
C19_ShutdownInOrder ==
    [][\A s \in Sessions :
          /\ ShutdownInOrder(s)
          /\ DispatcherQuietAfterRelease(s)
          /\ (conn[s] = "closed" /\ ppc[s] = "write" /\ ppc'[s] # ppc[s])
                 => ppc'[s] = "exited" /\ nextTick'[s] = 0]_vars

\* The handler has returned after its close-frame attempt, close(done) and
\* conn.Close, and the ping goroutine is about to write a ping on the released
\* connection.
C19_Witness ==
    /\ hpc["c1"] = "returned"
    /\ closeFrames["c1"] = 1 /\ doneCloses["c1"] = 1 /\ connCloses["c1"] = 1
    /\ conn["c1"] = "closed"
    /\ ppc["c1"] = "write"

\* p is a JSON object by the grammar whose numbers a float64 can hold: what
\* decodes into a map.
ParsesAsObject(p) ==
    LET Obj(r) == r.ok /\ r.v.t = "obj" /\ NumbersInRange(r.v)
    IN  Obj(ParseJSON(p))

\* The object p has a member for a field of the command request whose value
\* is of another JSON type than the field: "command" not a string, "a" or "b"
\* not a number.
WrongTypeField(p) ==
    LET Wrong(m) ==
            \/ EqualFold(m.k, KeyCommand) /\ m.v.t \notin {"str", "null"}
            \/ (EqualFold(m.k, KeyA) \/ EqualFold(m.k, KeyB)) /\ m.v.t \notin {"num", "null"}
        Some(r) == r.ok /\ r.v.t = "obj" /\ \E k \in 1..Len(r.v.mem) : Wrong(r.v.mem[k])
    IN  Some(ParseJSON(p))

\* C20: the response with the error "Invalid JSON" is the reply only to a
\* payload that begins with '{', parses as a JSON object and has a field of
\* the wrong type for the command request; a payload that begins with '{' and
\* does not parse as a JSON object is answered with "[Msg #N] " and the
\* payload as it is, not with anything processCommand returns.
C20_InvalidJSONOnlyForWrongType ==
    \A s \in Sessions :
        hpc[s] = "write" =>
            /\ reply[s] = InvalidJSONReply
                   => /\ BeginsWithBrace(payload[s])
                      /\ ParsesAsObject(payload[s])
                      /\ WrongTypeField(payload[s])
            /\ (BeginsWithBrace(payload[s]) /\ ~ParsesAsObject(payload[s]))
                   => reply[s] = TextReply(MsgSprintf(count[s], payload[s]))

\* The reply to {"command":"add","a":"x"} is the "Invalid JSON" response.
C20_Witness ==
    /\ hpc["c1"] = "write"
    /\ payload["c1"] = PayloadBadType
    /\ reply["c1"] = InvalidJSONReply

====
